---- MODULE Spec2Model ----
(***************************************************************************)
(* Model of the retrieval and citation pipeline of                         *)
(* src/Visualizer/kg-visualizer.js (the RAG-enabled version, lines 540 on).*)
(*                                                                         *)
(* Three specifications share the module:                                  *)
(*   SpecCite     the synchronous tail of generateAnswerWithCitations      *)
(*                (extractCitations, renumberCitations, reorderCitations)  *)
(*                applied to every bounded answer text and document list;  *)
(*   SpecRetrieve retrieveDocuments applied to every bounded corpus,       *)
(*                query embedding and topK;                                *)
(*   Spec         the page: event selections and handleCustomQuery         *)
(*                invocations, interleaved at their await points.          *)
(***************************************************************************)
EXTENDS Integers, Sequences, FiniteSets

VARIABLES
    \* ---- citation pipeline (SpecCite) ----
    answer,          \* data.choices[0].message.content, as a token sequence
    retrievedDocs,   \* the retrievedDocs argument of generateAnswerWithCitations
    citePc,          \* "start" | "returned" | "threw"
    citations,       \* const citations = extractCitations(...)
    mapping,         \* const { mapping } = renumberCitations(answer)
    result,          \* the object generateAnswerWithCitations returns
    \* ---- retrieval (SpecRetrieve) ----
    corpus,          \* the embeddingsData argument of retrieveDocuments
    queryEmbedding,  \* Array.from(output.data)
    topK,            \* the topK argument
    engineOrder,     \* the order the engine's sort leaves an array in when its
                     \* comparator is inconsistent (implementation-defined)
    retrieved,       \* what the successive runs of retrieveDocuments returned
    \* ---- the page (Spec): module-level state ----
    embedder,        \* let embedder: 0 is null, i the handle invocation i acquired
    embeddingsData,  \* let embeddingsData: NullCorpus is null
    currentEventId,  \* let currentEventId: 0 is null
    currentData,     \* let currentData: 0 is null, e the data of event e
    \* ---- the page: DOM ----
    selectValue,     \* option selected in #eventSelect: 0 is the placeholder
    statusDiv,       \* what #queryStatus shows
    resultsDisplay,  \* #queryResults style.display
    answerBox,       \* what #answerBox and #retrievedDocs show
    submitBtn,       \* #submitQuery: disabled, and its loading indicator
    \* ---- the page: handlers in flight ----
    q,               \* handleCustomQuery invocations that passed validation
    sel,             \* change handlers of #eventSelect that started a fetch
    started,         \* how many of either there have been
    \* ---- history (not a variable of the program) ----
    loadedSinceSelection  \* a corpus load for the current event has succeeded
                          \* since the last event selection

citeVars == <<answer, retrievedDocs, citePc, citations, mapping, result>>
retrieveVars == <<corpus, queryEmbedding, topK, engineOrder, retrieved>>

pageVars == <<embedder, embeddingsData, currentEventId, currentData, selectValue,
              statusDiv, resultsDisplay, answerBox, submitBtn, q, sel, started,
              loadedSinceSelection>>

vars == <<citeVars, retrieveVars, pageVars>>

(***************************************************************************)
(* Bounds                                                                  *)
(***************************************************************************)
MaxLen == 4      \* tokens in a generated answer
MaxNum == 3      \* largest single-digit marker number drawn
MaxDocs == 3     \* retrieved documents handed to the citation pipeline
MaxCorpus == 3   \* documents of a corpus handed to retrieveDocuments
MaxRuns == 2     \* runs of retrieveDocuments on the same inputs
MaxHandlers == 3 \* handlers run: event selections that fetch, queries that pass validation

(***************************************************************************)
(* Answer text.  /\[(\d+)\]/g splits a string into marker matches and the  *)
(* text between them; a token is one marker (its digit string) or one      *)
(* stretch of text that holds no marker.                                   *)
(***************************************************************************)
Text == [mark |-> FALSE, digits |-> <<>>]
Mark(ds) == [mark |-> TRUE, digits |-> ds]

\* digit strings drawn for markers: "0".."MaxNum", "01" (a leading zero) and
\* "10" (a number beyond every document list of the model)
MarkerStrings == {<<d>> : d \in 0..MaxNum} \cup {<<0, 1>>, <<1, 0>>}

Tokens == {Text} \cup {Mark(ds) : ds \in MarkerStrings}

Answers == UNION {[1..n -> Tokens] : n \in 0..MaxLen}

\* parseInt(match[1]) on a string of decimal digits
RECURSIVE parseInt(_)
parseInt(ds) ==
    IF ds = <<>> THEN 0
    ELSE 10 * parseInt(SubSeq(ds, 1, Len(ds) - 1)) + ds[Len(ds)]

\* `${n}` for a non-negative integer n: its decimal digits, no leading zero
RECURSIVE numberToString(_)
numberToString(n) ==
    IF n < 10 THEN <<n>> ELSE Append(numberToString(n \div 10), n % 10)

\* the while ((match = citationPattern.exec(answer)) !== null) loop: the
\* parsed numbers of the markers, left to right
RECURSIVE execAll(_)
execAll(txt) ==
    IF txt = <<>> THEN <<>>
    ELSE IF Head(txt).mark
         THEN <<parseInt(Head(txt).digits)>> \o execAll(Tail(txt))
         ELSE execAll(Tail(txt))

Range(s) == {s[i] : i \in DOMAIN s}

\* Array.from(set).sort((a, b) => a - b)
RECURSIVE sortAscending(_)
sortAscending(S) ==
    IF S = {} THEN <<>>
    ELSE LET m == CHOOSE x \in S : \A y \in S : x <= y
         IN <<m>> \o sortAscending(S \ {m})

(***************************************************************************)
(* extractCitations.  retrievedDocs[sourceNum - 1] is undefined for        *)
(* sourceNum = 0 (index -1), and reading doc.content of undefined throws a *)
(* TypeError; the only guard is sourceNum <= retrievedDocs.length.         *)
(***************************************************************************)
\* mutant: the sourceNum <= retrievedDocs.length guard is missing, so a number
\* beyond the list reads an undefined document and throws
RECURSIVE extractLoop_noUpperGuard(_, _)
extractLoop_noUpperGuard(nums, docs) ==
    IF nums = <<>> THEN [threw |-> FALSE, value |-> <<>>]
    ELSE LET sourceNum == Head(nums)
             rest == extractLoop_noUpperGuard(Tail(nums), docs)
         IN IF sourceNum - 1 \notin 0..(Len(docs) - 1)
            THEN [threw |-> TRUE, value |-> <<>>]
            ELSE IF rest.threw THEN rest
            ELSE [threw |-> FALSE,
                  value |-> <<[source_id |-> sourceNum,
                               content |-> docs[sourceNum].content,
                               metadata |-> docs[sourceNum].metadata]>>
                            \o rest.value]

RECURSIVE extractLoop(_, _)
extractLoop(nums, docs) ==
    IF nums = <<>> THEN [threw |-> FALSE, value |-> <<>>]
    ELSE LET sourceNum == Head(nums)
             rest == extractLoop(Tail(nums), docs)
         IN IF sourceNum <= Len(docs)
            THEN IF sourceNum - 1 \notin 0..(Len(docs) - 1)
                 THEN [threw |-> TRUE, value |-> <<>>]
                 ELSE IF rest.threw THEN rest
                 ELSE [threw |-> FALSE,
                       value |-> <<[source_id |-> sourceNum,
                                    content |-> docs[sourceNum].content,
                                    metadata |-> docs[sourceNum].metadata]>>
                                 \o rest.value]
            ELSE rest

extractCitations(ans, docs) ==
    LET citedSources == Range(execAll(ans))
    IN extractLoop(sortAscending(citedSources), docs)

(***************************************************************************)
(* renumberCitations                                                       *)
(***************************************************************************)
\* citationsFound.forEach(oldNum => { if (!(oldNum in oldToNew)) ... })
\* mutant: the counter advances on every marker, repeats included
RECURSIVE buildOldToNew_countsRepeats(_, _, _)
buildOldToNew_countsRepeats(found, oldToNew, newCounter) ==
    IF found = <<>> THEN oldToNew
    ELSE LET oldNum == Head(found)
         IN IF oldNum \notin DOMAIN oldToNew
            THEN buildOldToNew_countsRepeats(Tail(found),
                               [k \in DOMAIN oldToNew \cup {oldNum} |->
                                   IF k = oldNum THEN newCounter ELSE oldToNew[k]],
                               newCounter + 1)
            ELSE buildOldToNew_countsRepeats(Tail(found), oldToNew, newCounter + 1)

\* mutant: newCounter is never advanced, every number gets 1
RECURSIVE buildOldToNew_counterStuck(_, _, _)
buildOldToNew_counterStuck(found, oldToNew, newCounter) ==
    IF found = <<>> THEN oldToNew
    ELSE LET oldNum == Head(found)
         IN IF oldNum \notin DOMAIN oldToNew
            THEN buildOldToNew_counterStuck(Tail(found),
                               [k \in DOMAIN oldToNew \cup {oldNum} |->
                                   IF k = oldNum THEN newCounter ELSE oldToNew[k]],
                               newCounter)
            ELSE buildOldToNew_counterStuck(Tail(found), oldToNew, newCounter)

RECURSIVE buildOldToNew(_, _, _)
buildOldToNew(found, oldToNew, newCounter) ==
    IF found = <<>> THEN oldToNew
    ELSE LET oldNum == Head(found)
         IN IF oldNum \notin DOMAIN oldToNew
            THEN buildOldToNew(Tail(found),
                               [k \in DOMAIN oldToNew \cup {oldNum} |->
                                   IF k = oldNum THEN newCounter ELSE oldToNew[k]],
                               newCounter + 1)
            ELSE buildOldToNew(Tail(found), oldToNew, newCounter)

\* answer.replace(citationPattern, (match, oldNum) => `[${oldToNew[num] || num}]`)
replaceMarkers(ans, oldToNew) ==
    [i \in DOMAIN ans |->
        IF ans[i].mark
        THEN LET num == parseInt(ans[i].digits)
             IN Mark(numberToString(
                    IF num \in DOMAIN oldToNew /\ oldToNew[num] # 0
                    THEN oldToNew[num] ELSE num))
        ELSE ans[i]]

\* mutant: let newCounter = 0
renumberCitations_counterFromZero(ans) ==
    LET oldToNew == buildOldToNew(execAll(ans), <<>>, 0)
    IN [renumberedAnswer |-> replaceMarkers(ans, oldToNew), mapping |-> oldToNew]

renumberCitations(ans) ==
    LET oldToNew == buildOldToNew(execAll(ans), <<>>, 1)
    IN [renumberedAnswer |-> replaceMarkers(ans, oldToNew), mapping |-> oldToNew]

(***************************************************************************)
(* reorderCitations                                                        *)
(***************************************************************************)
Hole == [hole |-> TRUE, source_id |-> 0, content |-> 0, metadata |-> 0]
Filled(c) == [hole |-> FALSE, source_id |-> c.source_id,
              content |-> c.content, metadata |-> c.metadata]

\* citations.forEach(citation => { if (oldId in mapping) newCitations[newId-1] = ... })
\* mutant: the copy keeps the old source_id ({ ...citation } without source_id: newId)
RECURSIVE placeCitations_keepOldId(_, _, _)
placeCitations_keepOldId(cits, map, newCitations) ==
    IF cits = <<>> THEN newCitations
    ELSE LET citation == Head(cits)
             oldId == citation.source_id
         IN IF oldId \in DOMAIN map
            THEN placeCitations_keepOldId(Tail(cits), map,
                        [newCitations EXCEPT ![map[oldId]] = Filled(citation)])
            ELSE placeCitations_keepOldId(Tail(cits), map, newCitations)

RECURSIVE placeCitations(_, _, _)
placeCitations(cits, map, newCitations) ==
    IF cits = <<>> THEN newCitations
    ELSE LET citation == Head(cits)
             oldId == citation.source_id
         IN IF oldId \in DOMAIN map
            THEN LET newId == map[oldId]
                     newCitation == [citation EXCEPT !.source_id = newId]
                 IN placeCitations(Tail(cits), map,
                        [newCitations EXCEPT ![newId] = Filled(newCitation)])
            ELSE placeCitations(Tail(cits), map, newCitations)

\* newCitations.filter(c => c !== undefined)
RECURSIVE filterDefined(_)
filterDefined(arr) ==
    IF arr = <<>> THEN <<>>
    ELSE IF Head(arr).hole THEN filterDefined(Tail(arr))
    ELSE <<[source_id |-> Head(arr).source_id, content |-> Head(arr).content,
            metadata |-> Head(arr).metadata]>> \o filterDefined(Tail(arr))

\* mutant: the citations get their new numbers but stay in extracted
\* (ascending old number) order
reorderCitations_extractedOrder(cits, map) ==
    [i \in DOMAIN cits |->
        IF cits[i].source_id \in DOMAIN map
        THEN [cits[i] EXCEPT !.source_id = map[cits[i].source_id]]
        ELSE cits[i]]

reorderCitations(cits, map) ==
    LET newCitations == [i \in 1..Cardinality(DOMAIN map) |-> Hole]
    IN filterDefined(placeCitations(cits, map, newCitations))

(***************************************************************************)
(* The synchronous tail of generateAnswerWithCitations (lines 800-814)     *)
(***************************************************************************)
NoResult == [answer |-> <<>>, citations |-> <<>>, rawAnswer |-> <<>>]

canonicalize(ans, docs) ==
    LET ex == extractCitations(ans, docs)
        rn == renumberCitations(ans)
    IN IF ex.threw
       THEN [threw |-> TRUE, citations |-> <<>>, mapping |-> <<>>, result |-> NoResult]
       ELSE [threw |-> FALSE, citations |-> ex.value, mapping |-> rn.mapping,
             result |-> [answer |-> rn.renumberedAnswer,
                         citations |-> reorderCitations(ex.value, rn.mapping),
                         rawAnswer |-> ans]]

\* the documents handed over in SpecCite: position i holds document n + 1 - i
DocsOfSize(n) ==
    [i \in 1..n |-> [content |-> n + 1 - i, metadata |-> n + 1 - i, sourceId |-> i]]

CiteIdle ==
    /\ answer = <<>>
    /\ retrievedDocs = <<>>
    /\ citePc = "idle"
    /\ citations = <<>>
    /\ mapping = <<>>
    /\ result = NoResult

CiteInit ==
    /\ answer \in Answers
    /\ retrievedDocs \in {DocsOfSize(n) : n \in 0..MaxDocs}
    /\ citePc = "start"
    /\ citations = <<>>
    /\ mapping = <<>>
    /\ result = NoResult

generateAnswerWithCitations ==
    /\ citePc = "start"
    /\ LET r == canonicalize(answer, retrievedDocs)
       IN /\ citePc' = IF r.threw THEN "threw" ELSE "returned"
          /\ citations' = r.citations
          /\ mapping' = r.mapping
          /\ result' = r.result
    /\ UNCHANGED <<answer, retrievedDocs>>
    /\ UNCHANGED <<retrieveVars, pageVars>>

(***************************************************************************)
(* cosineSimilarity and retrieveDocuments.                                 *)
(*                                                                         *)
(* Embeddings are two-dimensional integer vectors.  A score               *)
(* dotProduct / (sqrt(normA) * sqrt(normB)) is kept exactly, as the pair   *)
(* num = dotProduct, den = normA * normB (its value is num / sqrt(den));   *)
(* the division 0 / 0 of a zero vector gives NaN.  Floating-point rounding *)
(* is not modelled: scores that are equal as real numbers compare equal.   *)
(***************************************************************************)
ZeroVector == <<0, 0>>
Vectors == {ZeroVector, <<1, 0>>, <<0, 1>>, <<1, 1>>, <<-1, 0>>, <<-1, 1>>}

\* for (let i = 0; i < vecA.length; i++) sum += u[i] * v[i]
RECURSIVE sumProducts(_, _, _)
sumProducts(u, v, i) ==
    IF i > Len(u) THEN 0 ELSE u[i] * v[i] + sumProducts(u, v, i + 1)

cosineSimilarity(vecA, vecB) ==
    LET dotProduct == sumProducts(vecA, vecB, 1)
        normA == sumProducts(vecA, vecA, 1)
        normB == sumProducts(vecB, vecB, 1)
    IN [nan |-> normA * normB = 0, num |-> dotProduct, den |-> normA * normB]

\* x |-> sign(x) * x * x is increasing, so scores compare as their signed squares
SignedSquare(x) == IF x < 0 THEN 0 - x * x ELSE x * x

\* s >= t as JavaScript numbers (false when either is NaN)
ScoreGeq(s, t) ==
    /\ ~s.nan
    /\ ~t.nan
    /\ SignedSquare(s.num) * t.den >= SignedSquare(t.num) * s.den

\* mutant: ascending comparator (a, b) => a.score - b.score
descendingComparator_ascending(a, b) ==
    IF a.score.nan \/ b.score.nan THEN "NaN"
    ELSE IF ScoreGeq(b.score, a.score) /\ ScoreGeq(a.score, b.score) THEN "zero"
    ELSE IF ScoreGeq(a.score, b.score) THEN "positive"
    ELSE "negative"

\* (a, b) => b.score - a.score: the sign of the difference, or NaN
descendingComparator(a, b) ==
    IF a.score.nan \/ b.score.nan THEN "NaN"
    ELSE IF ScoreGeq(b.score, a.score) /\ ScoreGeq(a.score, b.score) THEN "zero"
    ELSE IF ScoreGeq(b.score, a.score) THEN "positive"
    ELSE "negative"

\* mutant: an unstable sort, x goes before the elements it ties with
RECURSIVE insertStable_beforeTies(_, _)
insertStable_beforeTies(x, sorted) ==
    IF sorted = <<>> THEN <<x>>
    ELSE IF descendingComparator(Head(sorted), x) \in {"positive", "zero"}
         THEN <<x>> \o sorted
         ELSE <<Head(sorted)>> \o insertStable_beforeTies(x, Tail(sorted))

\* one insertion of a stable sort: x, which followed every element of sorted
\* in the array, goes before the first element the comparator puts after it
RECURSIVE insertStable(_, _)
insertStable(x, sorted) ==
    IF sorted = <<>> THEN <<x>>
    ELSE IF descendingComparator(Head(sorted), x) = "positive"
         THEN <<x>> \o sorted
         ELSE <<Head(sorted)>> \o insertStable(x, Tail(sorted))

RECURSIVE stableSort(_)
stableSort(arr) ==
    IF arr = <<>> THEN <<>>
    ELSE insertStable(arr[Len(arr)], stableSort(SubSeq(arr, 1, Len(arr) - 1)))

Orders(n) ==
    {g \in [1..n -> 1..n] : \A i, j \in 1..n : g[i] = g[j] => i = j}

Identity(n) == [i \in 1..n |-> i]

InconsistentComparator(arr) == \E i \in DOMAIN arr : arr[i].score.nan

\* indexedScores.sort(...).  Array.prototype.sort is stable (ECMAScript 2019;
\* the file uses ?. of 2020).  A comparator that returns NaN is not a
\* consistent comparator, and the order is then implementation-defined: some
\* permutation, the same one whenever the engine sorts the same array.
sort(arr, order) ==
    IF InconsistentComparator(arr)
    THEN [i \in DOMAIN arr |-> arr[order[i]]]
    ELSE stableSort(arr)

Min(a, b) == IF a <= b THEN a ELSE b

\* the results retrieveDocuments can return (lines 705-721); indices are
\* 1-based here, sourceId = rank + 1 is the 1-based position in the result
scoresOf(qEmb, embData) ==
    [i \in DOMAIN embData.embeddings |-> cosineSimilarity(qEmb, embData.embeddings[i])]

\* mutant: the slice(0, topK) is missing
slice_all(arr, k) == arr

\* arr.slice(0, k)
slice(arr, k) == SubSeq(arr, 1, Min(k, Len(arr)))

\* mutant: sourceId is the corpus index of the document (idx + 1), not its rank
retrieveDocuments_sourceIdIsCorpusIndex(qEmb, embData, k, order) ==
    LET scores == scoresOf(qEmb, embData)
        indexedScores == [i \in DOMAIN scores |-> [score |-> scores[i], idx |-> i]]
        sorted == sort(indexedScores, order)
        topIndices == [r \in DOMAIN slice(sorted, k) |-> slice(sorted, k)[r].idx]
    IN [r \in DOMAIN topIndices |->
           [content |-> embData.documents[topIndices[r]].content,
            metadata |-> embData.documents[topIndices[r]].metadata,
            score |-> scores[topIndices[r]],
            sourceId |-> topIndices[r]]]

\* retrieveDocuments after the query embedding has arrived (lines 705-721);
\* indices are 1-based here, sourceId = rank + 1 is the position in the result
retrieveDocuments(qEmb, embData, k, order) ==
    LET scores == scoresOf(qEmb, embData)
        indexedScores == [i \in DOMAIN scores |-> [score |-> scores[i], idx |-> i]]
        sorted == sort(indexedScores, order)
        topIndices == [r \in DOMAIN slice(sorted, k) |-> slice(sorted, k)[r].idx]
    IN [r \in DOMAIN topIndices |->
           [content |-> embData.documents[topIndices[r]].content,
            metadata |-> embData.documents[topIndices[r]].metadata,
            score |-> scores[topIndices[r]],
            sourceId |-> r]]

\* the corpus of an event: document i of event e has content and metadata
\* <<e, i>>
CorpusWith(e, embs) ==
    [eventId |-> e,
     documents |-> [i \in DOMAIN embs |-> [content |-> <<e, i>>, metadata |-> <<e, i>>]],
     embeddings |-> embs]

Corpora == {CorpusWith(1, embs) : embs \in UNION {[1..n -> Vectors] : n \in 0..MaxCorpus}}

\* topK values drawn: below, at and above the corpus sizes, and the 10 that
\* handleCustomQuery passes
TopKs == {0, 1, 2, 3, 10}

\* the embedder is called with normalize: true, so the query embedding is a
\* non-zero vector (only its direction matters to the scores' order)
QueryEmbeddings == {<<1, 0>>, <<1, 1>>, <<-1, 1>>, <<0, -1>>}

RetrieveIdle ==
    /\ corpus = CorpusWith(0, <<>>)
    /\ queryEmbedding = ZeroVector
    /\ topK = 0
    /\ engineOrder = <<>>
    /\ retrieved = <<>>

RetrieveInit ==
    /\ corpus \in Corpora
    /\ queryEmbedding \in QueryEmbeddings
    /\ topK \in TopKs
    /\ engineOrder \in
         IF \E i \in DOMAIN corpus.embeddings : corpus.embeddings[i] = ZeroVector
         THEN Orders(Len(corpus.embeddings))
         ELSE {Identity(Len(corpus.embeddings))}
    /\ retrieved = <<>>

\* mutant: the run reverses embeddingsData.embeddings in place
runRetrieveDocuments_reversesCorpus ==
    /\ Len(retrieved) < MaxRuns
    /\ retrieved' = Append(retrieved,
                          retrieveDocuments(queryEmbedding, corpus, topK, engineOrder))
    /\ corpus' = [corpus EXCEPT !.embeddings =
                     [i \in DOMAIN @ |-> @[Len(@) + 1 - i]]]
    /\ UNCHANGED <<queryEmbedding, topK, engineOrder>>
    /\ UNCHANGED <<citeVars, pageVars>>

runRetrieveDocuments ==
    /\ Len(retrieved) < MaxRuns
    /\ retrieved' = Append(retrieved,
                          retrieveDocuments(queryEmbedding, corpus, topK, engineOrder))
    /\ UNCHANGED <<corpus, queryEmbedding, topK, engineOrder>>
    /\ UNCHANGED <<citeVars, pageVars>>

\* the context of the prompt (lines 740-750): the block of the document at
\* index idx is labelled "Source idx + 1" and carries its metadata and content
context(docs) ==
    [i \in DOMAIN docs |->
        [label |-> i, metadata |-> docs[i].metadata, content |-> docs[i].content]]

(***************************************************************************)
(* The page: module-level state, the DOM it writes, and its handlers.      *)
(* JavaScript runs a handler without interruption up to its next await, so  *)
(* each action is one such stretch: it starts at a DOM event or at the      *)
(* settling of the awaited promise and ends at the next await or at the     *)
(* handler's end.  fetch(...) and the response.json() that follows it       *)
(* touch no state between them and are one await here.  The state starts    *)
(* after DOMContentLoaded, with the dropdown filled from index.json.        *)
(***************************************************************************)
\* the events of index.json (DisNo and data file of an event are both e)
Events == {1, 2}

NullCorpus == [eventId |-> 0, documents |-> <<>>, embeddings |-> <<>>]

\* the content of embeddings/${eventId}_embeddings.json
FileEmbeddings == <<<<0, 1>>, <<1, 0>>>>

\* loadEmbeddings when its fetch succeeds: data.eventId = eventId; return data
loadEmbeddings(eventId) == CorpusWith(eventId, FileEmbeddings)

\* retrieveDocuments(query, embeddingsData, 10)
QueryTopK == 10

\* what the embedder returns for the questions asked, and what the
\* generation service answers
PageQueryEmbeddings == {<<1, 0>>}
PageAnswers == {<<Mark(<<2>>), Text, Mark(<<1>>)>>, <<Mark(<<1>>)>>, <<Mark(<<0>>)>>}

\* the values of #apiKey and #userQuery after trim()
FieldValues == {"", "text"}

\* the k-th handler that starts is handler k; one that has ended is idle again
Handlers == 1..MaxHandlers

IdleSlot == [pc |-> "idle", eventArg |-> 0, corpus |-> NullCorpus, retrievedDocs |-> <<>>]
IdleSelection == [pc |-> "idle", event |-> 0]
EmptyAnswerBox == [answer |-> <<>>, citations |-> <<>>]
ButtonReady == [disabled |-> FALSE, loading |-> FALSE]
ButtonPending == [disabled |-> TRUE, loading |-> TRUE]

PageInit ==
    /\ embedder = 0
    /\ embeddingsData = NullCorpus
    /\ currentEventId = 0
    /\ currentData = 0
    /\ selectValue = 0
    /\ statusDiv = ""
    /\ resultsDisplay = "none"
    /\ answerBox = EmptyAnswerBox
    /\ submitBtn = ButtonReady
    /\ q = [i \in Handlers |-> IdleSlot]
    /\ sel = [j \in Handlers |-> IdleSelection]
    /\ started = 0
    /\ loadedSinceSelection = FALSE

\* ---- #eventSelect change handler (lines 987-1013) ----

\* the user picks the option of event e: currentEventId is set at once, the
\* event's data is fetched
SelectEvent(e) ==
    /\ e # selectValue
    /\ started < MaxHandlers
    /\ started' = started + 1
    /\ loadedSinceSelection' = FALSE
    /\ selectValue' = e
    /\ currentEventId' = e
    /\ sel' = [sel EXCEPT ![started + 1] = [pc |-> "fetching", event |-> e]]
    /\ UNCHANGED <<embedder, embeddingsData, currentData, statusDiv, resultsDisplay,
                   answerBox, submitBtn, q>>
    /\ UNCHANGED <<citeVars, retrieveVars>>

\* the user picks "-- Select an event --": if (!filename) return
SelectPlaceholder ==
    /\ selectValue # 0
    /\ selectValue' = 0
    /\ UNCHANGED <<embedder, embeddingsData, currentEventId, currentData, statusDiv,
                   resultsDisplay, answerBox, submitBtn, q, sel, started,
                   loadedSinceSelection>>
    /\ UNCHANGED <<citeVars, retrieveVars>>

\* fetch and response.json() succeeded: lines 1003-1008
EventDataLoaded(j) ==
    /\ sel[j].pc = "fetching"
    /\ currentData' = sel[j].event
    /\ embeddingsData' = NullCorpus
    /\ sel' = [sel EXCEPT ![j] = IdleSelection]
    /\ UNCHANGED <<embedder, currentEventId, selectValue, statusDiv, resultsDisplay,
                   answerBox, submitBtn, q, started,
                   loadedSinceSelection>>
    /\ UNCHANGED <<citeVars, retrieveVars>>

\* fetch rejected, or !response.ok: the catch block alerts (lines 1009-1012)
EventDataFailed(j) ==
    /\ sel[j].pc = "fetching"
    /\ sel' = [sel EXCEPT ![j] = IdleSelection]
    /\ UNCHANGED <<embedder, embeddingsData, currentEventId, currentData, selectValue,
                   statusDiv, resultsDisplay, answerBox, submitBtn, q, started,
                   loadedSinceSelection>>
    /\ UNCHANGED <<citeVars, retrieveVars>>

\* ---- handleCustomQuery (lines 617-684) ----

\* mutant: step 2 is skipped, retrieval runs on whatever embeddingsData holds
afterEmbedderLoaded_skipsLoad(embData, eventId) ==
    [status |-> "searching",
     slot |-> [IdleSlot EXCEPT !.pc = "awaitEmbed", !.corpus = embData]]

\* lines 655-664, run once the embedder is there: the status shown and the
\* await the invocation stops at
afterEmbedderLoaded(embData, eventId) ==
    IF embData = NullCorpus \/ embData.eventId # eventId
    THEN [status |-> "loadingEmbeddings",
          slot |-> [IdleSlot EXCEPT !.pc = "awaitLoad", !.eventArg = eventId]]
    ELSE [status |-> "searching",
          slot |-> [IdleSlot EXCEPT !.pc = "awaitEmbed", !.corpus = embData]]

\* a validation message and return (lines 625-638)
reject(message) ==
    /\ statusDiv' = message
    /\ UNCHANGED <<embedder, embeddingsData, currentEventId, currentData, selectValue,
                   resultsDisplay, answerBox, submitBtn, q, sel, started,
                   loadedSinceSelection>>

\* handleCustomQuery up to its first await, with apiKey and query as read
\* from the fields
handleCustomQuery(apiKey, query) ==
    /\ IF apiKey = "" THEN reject("enterApiKey")
       ELSE IF query = "" THEN reject("enterQuestion")
       ELSE IF currentEventId = 0 THEN reject("selectEvent")
       ELSE /\ started < MaxHandlers
            /\ started' = started + 1
            /\ submitBtn' = ButtonPending
            /\ resultsDisplay' = "none"
            /\ IF embedder = 0
               THEN /\ statusDiv' = "loadingModel"
                    /\ q' = [q EXCEPT ![started + 1] = [IdleSlot EXCEPT !.pc = "awaitPipeline"]]
               ELSE LET next == afterEmbedderLoaded(embeddingsData, currentEventId)
                    IN /\ statusDiv' = next.status
                       /\ q' = [q EXCEPT ![started + 1] = next.slot]
            /\ UNCHANGED <<embedder, embeddingsData, currentEventId, currentData,
                           selectValue, answerBox, sel, loadedSinceSelection>>
    /\ UNCHANGED <<citeVars, retrieveVars>>

\* submitBtn.addEventListener('click', handleCustomQuery): a disabled
\* button fires no click
ClickSubmit ==
    /\ ~submitBtn.disabled
    /\ \E apiKey \in FieldValues, query \in FieldValues : handleCustomQuery(apiKey, query)

\* the keydown listener of #userQuery: Ctrl/Cmd+Enter calls handleCustomQuery
CtrlEnter ==
    \E apiKey \in FieldValues, query \in FieldValues : handleCustomQuery(apiKey, query)

\* mutant: the catch block also empties the results
catchAndFinally_clearsResults(i) ==
    /\ statusDiv' = "error"
    /\ submitBtn' = ButtonReady
    /\ q' = [q EXCEPT ![i] = IdleSlot]
    /\ answerBox' = EmptyAnswerBox
    /\ UNCHANGED resultsDisplay

\* mutant: the catch block shows the error and the invocation issues the
\* failed call again (it stays at its await)
catchAndFinally_retries(i) ==
    /\ statusDiv' = "error"
    /\ submitBtn' = ButtonReady
    /\ UNCHANGED <<q, resultsDisplay, answerBox>>

\* catch (error) { statusDiv = error } finally { reset button } (lines 675-683)
catchAndFinally(i) ==
    /\ statusDiv' = "error"
    /\ submitBtn' = ButtonReady
    /\ q' = [q EXCEPT ![i] = IdleSlot]
    /\ UNCHANGED <<resultsDisplay, answerBox>>

\* displayQueryResults(result, retrievedDocs) (lines 881-938)
displayQueryResults(res) ==
    /\ answerBox' = [answer |-> res.answer, citations |-> res.citations]
    /\ resultsDisplay' = "block"

\* await pipeline(...) resolved: lines 651-664
PipelineLoaded(i) ==
    /\ q[i].pc = "awaitPipeline"
    /\ embedder' = i
    /\ LET next == afterEmbedderLoaded(embeddingsData, currentEventId)
       IN /\ statusDiv' = next.status
          /\ q' = [q EXCEPT ![i] = next.slot]
    /\ UNCHANGED <<embeddingsData, currentEventId, currentData, selectValue,
                   resultsDisplay, answerBox, submitBtn, sel, started,
                   loadedSinceSelection>>
    /\ UNCHANGED <<citeVars, retrieveVars>>

\* await pipeline(...) rejected
PipelineFailed(i) ==
    /\ q[i].pc = "awaitPipeline"
    /\ catchAndFinally(i)
    /\ UNCHANGED <<embedder, embeddingsData, currentEventId, currentData, selectValue,
                   sel, started,
                   loadedSinceSelection>>
    /\ UNCHANGED <<citeVars, retrieveVars>>

\* await loadEmbeddings(currentEventId) resolved: lines 658-664, up to the
\* await embedder(query) inside retrieveDocuments
EmbeddingsLoaded(i) ==
    /\ q[i].pc = "awaitLoad"
    /\ embeddingsData' = loadEmbeddings(q[i].eventArg)
    /\ loadedSinceSelection' = (loadedSinceSelection \/ q[i].eventArg = currentEventId)
    /\ statusDiv' = "searching"
    /\ q' = [q EXCEPT ![i] = [IdleSlot EXCEPT !.pc = "awaitEmbed",
                                             !.corpus = embeddingsData']]
    /\ UNCHANGED <<embedder, currentEventId, currentData, selectValue, resultsDisplay,
                   answerBox, submitBtn, sel, started>>
    /\ UNCHANGED <<citeVars, retrieveVars>>

\* loadEmbeddings threw (fetch rejected, !response.ok, or a bad body)
EmbeddingsFailed(i) ==
    /\ q[i].pc = "awaitLoad"
    /\ catchAndFinally(i)
    /\ UNCHANGED <<embedder, embeddingsData, currentEventId, currentData, selectValue,
                   sel, started,
                   loadedSinceSelection>>
    /\ UNCHANGED <<citeVars, retrieveVars>>

\* await embedder(query) resolved: the rest of retrieveDocuments, then lines
\* 668-669 and generateAnswerWithCitations up to its fetch
QueryEmbedded(i, qEmb) ==
    /\ q[i].pc = "awaitEmbed"
    /\ statusDiv' = "generating"
    /\ q' = [q EXCEPT ![i] =
               [@ EXCEPT !.pc = "awaitGenerate",
                         !.retrievedDocs =
                             retrieveDocuments(qEmb, q[i].corpus, QueryTopK,
                                               Identity(Len(q[i].corpus.embeddings)))]]
    /\ UNCHANGED <<embedder, embeddingsData, currentEventId, currentData, selectValue,
                   resultsDisplay, answerBox, submitBtn, sel, started,
                   loadedSinceSelection>>
    /\ UNCHANGED <<citeVars, retrieveVars>>

\* await embedder(query) rejected
EmbedFailed(i) ==
    /\ q[i].pc = "awaitEmbed"
    /\ catchAndFinally(i)
    /\ UNCHANGED <<embedder, embeddingsData, currentEventId, currentData, selectValue,
                   sel, started,
                   loadedSinceSelection>>
    /\ UNCHANGED <<citeVars, retrieveVars>>

\* the generation request succeeded with answer ans: lines 797-814, then
\* lines 672-673 and the finally block; a throw of extractCitations lands in
\* the catch block
AnswerGenerated(i, ans) ==
    /\ q[i].pc = "awaitGenerate"
    /\ LET r == canonicalize(ans, q[i].retrievedDocs)
       IN IF r.threw
          THEN catchAndFinally(i)
          ELSE /\ displayQueryResults(r.result)
               /\ statusDiv' = "success"
               /\ submitBtn' = ButtonReady
               /\ q' = [q EXCEPT ![i] = IdleSlot]
    /\ UNCHANGED <<embedder, embeddingsData, currentEventId, currentData, selectValue,
                   sel, started,
                   loadedSinceSelection>>
    /\ UNCHANGED <<citeVars, retrieveVars>>

\* the generation request failed: fetch rejected, or !response.ok (lines 792-795)
GenerationFailed(i) ==
    /\ q[i].pc = "awaitGenerate"
    /\ catchAndFinally(i)
    /\ UNCHANGED <<embedder, embeddingsData, currentEventId, currentData, selectValue,
                   sel, started,
                   loadedSinceSelection>>
    /\ UNCHANGED <<citeVars, retrieveVars>>

(***************************************************************************)
(* Specifications                                                          *)
(***************************************************************************)
CiteNext == generateAnswerWithCitations

InitCite == CiteInit /\ RetrieveIdle /\ PageInit

SpecCite == InitCite /\ [][CiteNext]_vars

RetrieveNext == runRetrieveDocuments

InitRetrieve == RetrieveInit /\ CiteIdle /\ PageInit

SpecRetrieve == InitRetrieve /\ [][RetrieveNext]_vars

Next ==
    \/ \E e \in Events : SelectEvent(e)
    \/ SelectPlaceholder
    \/ \E j \in Handlers : EventDataLoaded(j)
    \/ \E j \in Handlers : EventDataFailed(j)
    \/ ClickSubmit
    \/ CtrlEnter
    \/ \E i \in Handlers : PipelineLoaded(i)
    \/ \E i \in Handlers : PipelineFailed(i)
    \/ \E i \in Handlers : EmbeddingsLoaded(i)
    \/ \E i \in Handlers : EmbeddingsFailed(i)
    \/ \E i \in Handlers, qEmb \in PageQueryEmbeddings : QueryEmbedded(i, qEmb)
    \/ \E i \in Handlers : EmbedFailed(i)
    \/ \E i \in Handlers, ans \in PageAnswers : AnswerGenerated(i, ans)
    \/ \E i \in Handlers : GenerationFailed(i)

Init == PageInit /\ CiteIdle /\ RetrieveIdle

Spec == Init /\ [][Next]_vars

(***************************************************************************)
(* Properties of the citation pipeline (checked under SpecCite)            *)
(***************************************************************************)
\* the numbers cited in a text
Cited(txt) == Range(execAll(txt))

\* positions of the markers of a text
MarkPositions(txt) == {i \in DOMAIN txt : txt[i].mark}

\* positions, among a list of numbers, where a number occurs for the first time
FirstAt(s) == {i \in DOMAIN s : \A j \in 1..(i - 1) : s[j] # s[i]}

\* how many distinct numbers have been seen up to position i of s
DistinctUpTo(s, i) == Cardinality({j \in FirstAt(s) : j <= i})

InRange(txt, docs) == \A n \in Cited(txt) : n \in 1..Len(docs)

\* C1: every marker [k] of the final answer has an entry at citations[k-1]
\* whose source_id is k.
C1_MarkersHaveCitations ==
    citePc = "returned" =>
        \A k \in Cited(result.answer) :
            /\ k \in 1..Len(result.citations)
            /\ result.citations[k].source_id = k

\* C2: every entry of the final citations list is referenced by a marker of
\* the renumbered answer (no orphan citations).
C2_NoOrphanCitations ==
    citePc = "returned" =>
        \A i \in DOMAIN result.citations :
            result.citations[i].source_id \in Cited(result.answer)

C2_Witness ==
    /\ citePc = "returned"
    /\ Len(result.citations) = 2
    /\ \E n \in Cited(answer) : n > Len(retrievedDocs)

\* C3: renumberCitations maps the i-th distinct old number, in order of first
\* occurrence, to i; repeats reuse the number; the values are exactly
\* 1..(number of distinct old numbers); every marker of the text is replaced
\* by its mapped number and the text between markers is kept.
C3_FirstAppearanceOrder ==
    LET found == execAll(answer)
        rn == renumberCitations(answer)
    IN /\ DOMAIN rn.mapping = Range(found)
       /\ \A i \in FirstAt(found) : rn.mapping[found[i]] = DistinctUpTo(found, i)
       /\ {rn.mapping[k] : k \in DOMAIN rn.mapping} = 1..Cardinality(Range(found))
       /\ DOMAIN rn.renumberedAnswer = DOMAIN answer
       /\ \A p \in DOMAIN answer :
            IF answer[p].mark
            THEN /\ rn.renumberedAnswer[p].mark
                 /\ rn.renumberedAnswer[p].digits
                        = numberToString(rn.mapping[parseInt(answer[p].digits)])
            ELSE rn.renumberedAnswer[p] = answer[p]
       /\ citePc = "returned" =>
            /\ mapping = rn.mapping
            /\ result.answer = rn.renumberedAnswer

C3_Witness ==
    /\ citePc = "returned"
    /\ answer = <<Mark(<<3>>), Mark(<<1>>), Mark(<<3>>), Mark(<<2>>)>>
    /\ result.answer = <<Mark(<<1>>), Mark(<<2>>), Mark(<<1>>), Mark(<<3>>)>>

\* C4: when every marker is in range, the canonical citation k carries the
\* content and metadata of the retrieved document whose position number was
\* the k-th distinct number cited in the raw answer.
C4_CitationCarriesCitedDocument ==
    (citePc = "returned" /\ InRange(answer, retrievedDocs)) =>
        LET found == execAll(answer)
        IN /\ Len(result.citations) = Cardinality(Range(found))
           /\ \A i \in FirstAt(found) :
                LET k == DistinctUpTo(found, i)
                IN result.citations[k] =
                       [source_id |-> k,
                        content |-> retrievedDocs[found[i]].content,
                        metadata |-> retrievedDocs[found[i]].metadata]

C4_Witness ==
    /\ citePc = "returned"
    /\ Len(retrievedDocs) = 3
    /\ answer = <<Text, Mark(<<2>>), Mark(<<2>>), Mark(<<1>>)>>
    /\ result.answer = <<Text, Mark(<<1>>), Mark(<<1>>), Mark(<<2>>)>>
    /\ result.citations =
         <<[source_id |-> 1, content |-> retrievedDocs[2].content,
            metadata |-> retrievedDocs[2].metadata],
           [source_id |-> 2, content |-> retrievedDocs[1].content,
            metadata |-> retrievedDocs[1].metadata]>>

\* C5: a marker whose number is greater than the number of retrieved
\* documents raises no error (the pipeline throws only for a marker below 1)
\* and no entry of the final citations corresponds to it: every entry is
\* built from a document of the retrieved list that the text cites in range.
C5_OutOfRangeDropped ==
    /\ (citePc = "threw") => \E n \in Cited(answer) : n < 1
    /\ ((\A n \in Cited(answer) : n >= 1) /\ citePc # "start") => citePc = "returned"
    /\ citePc = "returned" =>
         /\ \A i \in DOMAIN citations :
                /\ citations[i].source_id \in 1..Len(retrievedDocs)
                /\ citations[i].content
                       = retrievedDocs[citations[i].source_id].content
         /\ \A i \in DOMAIN result.citations :
                \E old \in Cited(answer) \cap (1..Len(retrievedDocs)) :
                    /\ result.citations[i].source_id = mapping[old]
                    /\ result.citations[i].content = retrievedDocs[old].content
                    /\ result.citations[i].metadata = retrievedDocs[old].metadata
         /\ \A old \in Cited(answer) :
                old > Len(retrievedDocs) =>
                    \A i \in DOMAIN result.citations :
                        result.citations[i].source_id # mapping[old]

C5_Witness ==
    /\ citePc = "returned"
    /\ Len(retrievedDocs) = 2
    /\ Cited(answer) = {1, 2, 10}
    /\ Len(result.citations) = 2

\* C6: a marker [0] is silently discarded by extractCitations: extraction
\* completes without an error and returns no citation for that number.
C6_ZeroMarkerDiscarded ==
    (citePc # "start" /\ 0 \in Cited(answer)) =>
        /\ citePc = "returned"
        /\ \A i \in DOMAIN citations : citations[i].source_id # 0

\* C17: a marker whose number is greater than the number of retrieved
\* documents (discarded by extractCitations) keeps its original number in the
\* rewritten answer text.
C17_OutOfRangeMarkerUnchanged ==
    citePc = "returned" =>
        \A p \in MarkPositions(answer) :
            LET n == parseInt(answer[p].digits)
            IN n > Len(retrievedDocs) =>
                   /\ result.answer[p].mark
                   /\ parseInt(result.answer[p].digits) = n

\* the citations of the documents numbered in S, in ascending order of number
CitationsOf(S, docs) ==
    [i \in 1..Cardinality(S) |->
        LET n == sortAscending(S)[i]
        IN [source_id |-> n, content |-> docs[n].content, metadata |-> docs[n].metadata]]

\* C21: for any answer text extractCitations returns exactly one citation per
\* distinct cited number in 1..len(retrievedDocs), in ascending order of
\* number, whatever the order and repetition of the markers.
C21_OneCitationPerDistinctNumber ==
    citePc # "start" =>
        /\ citePc = "returned"
        /\ citations = CitationsOf(Cited(answer) \cap (1..Len(retrievedDocs)), retrievedDocs)

\* C25: renumberCitations is idempotent: applied to its own output it returns
\* the same text and the identity mapping, for every answer text; the text a
\* run returned is such an output.
C25_RenumberIdempotent ==
    LET once == renumberCitations(answer)
        twice == renumberCitations(once.renumberedAnswer)
    IN /\ twice.renumberedAnswer = once.renumberedAnswer
       /\ DOMAIN twice.mapping = Cited(once.renumberedAnswer)
       /\ \A k \in DOMAIN twice.mapping : twice.mapping[k] = k
       /\ citePc = "returned" => result.answer = once.renumberedAnswer

\* "[01] [3] text [01]" was rewritten to "[1] [2] text [1]"
C25_Witness ==
    /\ citePc = "returned"
    /\ answer = <<Mark(<<0, 1>>), Mark(<<3>>), Text, Mark(<<0, 1>>)>>
    /\ result.answer = <<Mark(<<1>>), Mark(<<2>>), Text, Mark(<<1>>)>>
    /\ result.answer # answer

\* C26: renumberCitations preserves the citation structure: the renumbered
\* answer has markers at the same positions between the same text, and two
\* markers carry the same number after renumbering exactly when they carried
\* the same number before (the mapping is injective).
C26_StructurePreserved ==
    LET rn == renumberCitations(answer)
        new == rn.renumberedAnswer
    IN /\ DOMAIN new = DOMAIN answer
       /\ MarkPositions(new) = MarkPositions(answer)
       /\ \A p \in DOMAIN answer \ MarkPositions(answer) : new[p] = answer[p]
       /\ \A p1, p2 \in MarkPositions(answer) :
            (parseInt(new[p1].digits) = parseInt(new[p2].digits))
                <=> (parseInt(answer[p1].digits) = parseInt(answer[p2].digits))
       /\ \A k1, k2 \in DOMAIN rn.mapping :
            rn.mapping[k1] = rn.mapping[k2] => k1 = k2
       /\ citePc = "returned" => (result.answer = new /\ mapping = rn.mapping)

\* three distinct sources, one of them cited twice, around a stretch of text
C26_Witness ==
    /\ citePc = "returned"
    /\ answer = <<Mark(<<2>>), Text, Mark(<<1, 0>>), Mark(<<2>>)>>
    /\ result.answer = <<Mark(<<1>>), Text, Mark(<<2>>), Mark(<<1>>)>>
    /\ mapping[10] = 2

(***************************************************************************)
(* Properties of retrieveDocuments (checked under SpecRetrieve)            *)
(***************************************************************************)
NonIncreasing(docs) ==
    \A i, j \in DOMAIN docs : i < j => ScoreGeq(docs[i].score, docs[j].score)

NoZeroEmbedding(c) == \A i \in DOMAIN c.embeddings : c.embeddings[i] # ZeroVector

\* C10 as stated: for every corpus with len(documents) = len(embeddings),
\* retrieveDocuments returns min(topK, corpus size) documents whose scores
\* are in non-increasing order.
C10_AnyCorpusSorted ==
    \A r \in DOMAIN retrieved :
        /\ Len(retrieved[r]) = Min(topK, Len(corpus.documents))
        /\ NonIncreasing(retrieved[r])

\* C10 amended: the same for every corpus none of whose embeddings is the
\* zero vector (so that every score is a number).
C10_NonDegenerateCorpusSorted ==
    \A r \in DOMAIN retrieved :
        /\ Len(retrieved[r]) = Min(topK, Len(corpus.documents))
        /\ NoZeroEmbedding(corpus) => NonIncreasing(retrieved[r])

C10_Witness ==
    /\ Len(retrieved) >= 1
    /\ NoZeroEmbedding(corpus)
    /\ Len(corpus.documents) = 3
    /\ topK = 2
    /\ Len(retrieved[1]) = 2
    /\ retrieved[1][1].content = <<1, 3>>
    /\ retrieved[1][2].content = <<1, 1>>
    /\ ~ScoreGeq(retrieved[1][2].score, retrieved[1][1].score)

C16_PositionNumbersConsistent ==
    \A r \in DOMAIN retrieved :
        LET docs == retrieved[r]
            prompt == context(docs)
        IN /\ \A p \in DOMAIN docs : docs[p].sourceId = p
           /\ \A p \in DOMAIN prompt :
                /\ prompt[p].label = docs[p].sourceId
                /\ prompt[p].content = docs[p].content
                /\ prompt[p].metadata = docs[p].metadata
           /\ \A n \in 1..Len(docs) :
                LET ex == extractCitations(<<Mark(numberToString(n))>>, docs)
                IN /\ ~ex.threw
                   /\ Len(ex.value) = 1
                   /\ ex.value[1].source_id = n
                   /\ \E p \in DOMAIN prompt :
                        /\ prompt[p].label = n
                        /\ docs[p].sourceId = n
                        /\ ex.value[1].content = prompt[p].content
                        /\ ex.value[1].metadata = prompt[p].metadata

\* the ranking moved the third corpus document to position 1
C16_Witness ==
    /\ Len(retrieved) >= 1
    /\ Len(retrieved[1]) = 3
    /\ retrieved[1][1].content = <<1, 3>>
    /\ retrieved[1][1].sourceId = 1

ScoreEq(s, t) == ScoreGeq(s, t) /\ ScoreGeq(t, s)

\* corpus documents i < j with equal scores: if j is in the result, i is in
\* it at a lower position
TiesInCorpusOrder(docs, c, qEmb) ==
    LET scores == scoresOf(qEmb, c)
    IN \A i, j \in DOMAIN c.embeddings :
          (i < j /\ ScoreEq(scores[i], scores[j])) =>
              \A pj \in DOMAIN docs :
                  docs[pj].content = <<c.eventId, j>> =>
                      \E pi \in 1..(pj - 1) : docs[pi].content = <<c.eventId, i>>

\* C18 as stated: for every corpus, of two documents with equal score the one
\* with the lower corpus index has the lower position number, and it is the
\* one kept when only one of them fits within topK.
C18_TiesByCorpusOrder ==
    \A r \in DOMAIN retrieved : TiesInCorpusOrder(retrieved[r], corpus, queryEmbedding)

\* C18 amended: the same for every corpus none of whose embeddings is the
\* zero vector (with a NaN score the comparator is inconsistent and the order
\* of the other documents, ties included, is implementation-defined).
C18_TiesByCorpusOrderNonDegenerate ==
    \A r \in DOMAIN retrieved :
        NoZeroEmbedding(corpus) =>
            TiesInCorpusOrder(retrieved[r], corpus, queryEmbedding)

\* documents 1 and 3 tie ahead of document 2 and both fit; documents 1 and 3
\* are returned in corpus order
C18_Witness ==
    /\ Len(retrieved) >= 1
    /\ NoZeroEmbedding(corpus)
    /\ Len(corpus.embeddings) = 3
    /\ corpus.embeddings[1] = corpus.embeddings[3]
    /\ corpus.embeddings[2] # corpus.embeddings[1]
    /\ topK = 2
    /\ Len(retrieved[1]) = 2
    /\ retrieved[1][1].content = <<1, 1>>
    /\ retrieved[1][2].content = <<1, 3>>

(***************************************************************************)
(* Properties of the page (checked under Spec)                             *)
(***************************************************************************)
\* invocation i of handleCustomQuery calls retrieveDocuments in this step
StartsRetrieval(i) == q[i].pc # "awaitEmbed" /\ q'[i].pc = "awaitEmbed"

\* invocation i of handleCustomQuery passes validation in this step
PassesValidation(i) == q[i].pc = "idle" /\ q'[i].pc # "idle"

\* invocation i fails in a collaborator step: the embedding-model load, the
\* corpus load, the embedding of the question, the generation request
CollaboratorFails(i) ==
    \/ PipelineFailed(i)
    \/ EmbeddingsFailed(i)
    \/ EmbedFailed(i)
    \/ GenerationFailed(i)

ValidationMessages == {"enterApiKey", "enterQuestion", "selectEvent"}

\* C7: whenever a query starts its retrieval step, the corpus passed to
\* retrieveDocuments has eventId equal to currentEventId at that moment.
C7_RetrievalUsesCurrentEvent ==
    [][\A i \in Handlers :
          StartsRetrieval(i) => q'[i].corpus.eventId = currentEventId']_vars

\* C8: a query submitted with an empty question, or while no event is
\* selected in the event selector, is rejected with a validation message
\* before any collaborator is invoked.
C8_RejectedBeforeCollaborators ==
    [][\A apiKey \in FieldValues, query \in FieldValues :
          (handleCustomQuery(apiKey, query) /\ (query = "" \/ selectValue = 0)) =>
              /\ statusDiv' \in ValidationMessages
              /\ UNCHANGED <<q, started, embedder, embeddingsData>>]_vars

\* C9 as stated: when a query fails in a collaborator step, the error message
\* is shown and the results of the previous successful query, if any, remain
\* visible and unmodified.
C9_PriorResultsStayVisible ==
    [][\A i \in Handlers :
          CollaboratorFails(i) =>
              /\ statusDiv' = "error"
              /\ answerBox' = answerBox
              /\ answerBox # EmptyAnswerBox => resultsDisplay' = "block"]_vars

\* C9 amended: when a query fails in a collaborator step, the error message
\* is shown and the content of the previous results is left unmodified; the
\* results panel was hidden when the query passed validation, and the failure
\* leaves its visibility as it is (it does not show the panel again).
C9_PriorResultsKeptButHidden ==
    [][\A i \in Handlers :
          /\ CollaboratorFails(i) =>
                /\ statusDiv' = "error"
                /\ answerBox' = answerBox
                /\ resultsDisplay' = resultsDisplay
          /\ PassesValidation(i) => resultsDisplay' = "none"]_vars

C9_Witness ==
    /\ statusDiv = "error"
    /\ answerBox # EmptyAnswerBox
    /\ resultsDisplay = "none"
    /\ \A i \in Handlers : q[i].pc = "idle"

\* the awaits of handleCustomQuery, in the order of its statements
CollaboratorSteps == {"awaitPipeline", "awaitLoad", "awaitEmbed", "awaitGenerate"}

StepRank(pc) ==
    CASE pc = "idle" -> 0
      [] pc = "awaitPipeline" -> 1
      [] pc = "awaitLoad" -> 2
      [] pc = "awaitEmbed" -> 3
      [] pc = "awaitGenerate" -> 4

\* invocation i calls the collaborator it awaits at step in this step
Invokes(i, step) == q[i].pc # step /\ q'[i].pc = step

InFlight == {i \in Handlers : q[i].pc # "idle"}

\* C11: no implicit retries, and the first failure surfaces.  Within one
\* invocation a collaborator is called only from an earlier step (never
\* again once passed), an invocation starts once; a failing collaborator ends
\* the invocation at once with the error message shown, without touching the
\* results; and results are displayed only by an invocation whose generation
\* call returned, with the success message.
C11_NoRetryFirstFailureSurfaces ==
    [][/\ started' >= started
       /\ \A i \in Handlers :
            /\ \A step \in CollaboratorSteps :
                 Invokes(i, step) => StepRank(q[i].pc) < StepRank(step)
            /\ PassesValidation(i) => (started = i - 1 /\ started' = i)
            /\ CollaboratorFails(i) =>
                 /\ q'[i] = IdleSlot
                 /\ \A k \in Handlers \ {i} : q'[k] = q[k]
                 /\ statusDiv' = "error"
                 /\ UNCHANGED <<answerBox, resultsDisplay>>
       /\ (answerBox' # answerBox \/ (resultsDisplay # "block" /\ resultsDisplay' = "block")) =>
            /\ statusDiv' = "success"
            /\ \E k \in Handlers : q[k].pc = "awaitGenerate" /\ q'[k] = IdleSlot]_vars

\* a query whose corpus load failed: the model was loaded, nothing was cached,
\* nothing was displayed
C11_Witness ==
    /\ statusDiv = "error"
    /\ InFlight = {}
    /\ embedder # 0
    /\ embeddingsData = NullCorpus
    /\ answerBox = EmptyAnswerBox
    /\ resultsDisplay = "none"
    /\ submitBtn = ButtonReady

\* C12: at most one query is in flight at any time: while an invocation of
\* handleCustomQuery that passed validation has not finished, no other
\* invocation (button or Ctrl/Cmd+Enter) passes validation.
C12_AtMostOneQueryInFlight == Cardinality(InFlight) <= 1

\* C13: the embedding-model handle is acquired at most once: once embedder is
\* set it is never assigned again, and a query that starts when it is set
\* does not load the model.
C13_EmbedderAcquiredOnce ==
    [][/\ embedder # 0 => embedder' = embedder
       /\ \A i \in Handlers :
            (PassesValidation(i) /\ embedder # 0) => q'[i].pc # "awaitPipeline"]_vars

\* C14: when the change handler of the newly selected event (the one that is
\* current) finishes, with its fetch succeeded or failed, embeddingsData does
\* not hold the corpus of another (the previously selected) event.
C14_CacheDroppedOnSelection ==
    [][\A j \in Handlers :
          ((EventDataLoaded(j) \/ EventDataFailed(j)) /\ sel[j].event = currentEventId) =>
              \/ embeddingsData' = NullCorpus
              \/ embeddingsData'.eventId = sel[j].event]_vars

\* the results shown change, or the results panel is shown, in this step
DisplaysResults ==
    \/ answerBox' # answerBox
    \/ resultsDisplay # "block" /\ resultsDisplay' = "block"

C20_PendingWhileInFlight == InFlight # {} => submitBtn = ButtonPending

\* invocation i shows its result in this step (lines 672-673)
ShowsResult(i) ==
    /\ q[i].pc = "awaitGenerate"
    /\ q'[i] = IdleSlot
    /\ statusDiv' = "success"

\* C22: the corpus cache is effective: once a corpus load for the current
\* event has succeeded, no query calls loadEmbeddings again as long as no
\* event is selected.
C22_SecondQueryReusesCorpus ==
    [][\A i \in Handlers : Invokes(i, "awaitLoad") => ~loadedSinceSelection]_vars

\* C23: whenever a query passes validation, currentEventId identifies the
\* event whose graph data is shown (currentData).
C23_QueryEventIsDisplayedEvent ==
    [][\A i \in Handlers : PassesValidation(i) => currentData = currentEventId]_vars

\* C24: at the moment a query's result is displayed, the corpus it was
\* computed from belongs to the currently selected event.
C24_DisplayedAnswerOfSelectedEvent ==
    [][\A i \in Handlers :
          ShowsResult(i) => q[i].corpus.eventId = currentEventId]_vars

====
